---------------------------- MODULE Spec2Model ----------------------------
(***************************************************************************)
(* Device-record management of the metadata service                        *)
(* (core/metadata/rest_device.go): creation, merge-update, single-field    *)
(* setters, cascade delete and change notification, as request handlers    *)
(* running concurrently against one registry.  Every registry round trip   *)
(* that reads or writes mutable registry state is one atomic step of the   *)
(* handler that makes it.                                                  *)
(***************************************************************************)
EXTENDS Integers, Sequences, FiniteSets, TLC

(***************************************************************************)
(* Bounds of the model.                                                    *)
(***************************************************************************)
\* ObjectIds the registry hands out to devices (ids are never reused).
MaxDevices == 2
\* DeviceReports that exist at start, all owned by the device name ReportOwner.
MaxReports == 2
\* Entities per reference kind (Addressable, DeviceService, DeviceProfile).
NumRefs == 2
\* Registry/notifier calls that fail in one run of the retrying specification.
MaxFaults == 2
\* Requests served in one run of the concurrent specification.
MaxRequests == 3
\* Requests served in one run of the sequential specification.
MaxSeqRequests == 2
\* The configured maximum result count of a listing (configuration.ReadMaxLimit).
ReadMaxLimit == 1
\* Reference entities that change in one run of the referencing specification.
MaxChanges == 1

Procs == {"h1", "h2"}
Names == {"n1", "n2"}
ReportOwner == "n1"
DevIds == 1..MaxDevices
ReportIds == 1..MaxReports
RefIds == 1..NumRefs

\* HTTP status codes written by the handlers (net/http).
StatusOK == 200
StatusNotFound == 404
StatusConflict == 409
StatusRequestEntityTooLarge == 413
StatusServiceUnavailable == 503

(***************************************************************************)
(* Data model.  An ObjectId is a positive integer, 0 the zero ObjectId     *)
(* (whose Hex() no lookup accepts).  The name of reference entity i is i,  *)
(* 0 the empty name.                                                       *)
(***************************************************************************)
\* models.Addressable{} / models.DeviceService{} / models.DeviceProfile{}
ZeroRef == [Id |-> 0, Name |-> 0]
NilLabels == "nil"
NilLocation == "nil"
\* models.Device{}
ZeroDevice ==
    [Id |-> 0, Name |-> "", Addressable |-> ZeroRef, Service |-> ZeroRef,
     Profile |-> ZeroRef, AdminState |-> "", OperatingState |-> "",
     Description |-> "", Labels |-> NilLabels, LastConnected |-> 0,
     LastReported |-> 0, Location |-> NilLocation, Origin |-> 0]

\* The reference registries: entity i has Id i and Name i.
InitialRefs ==
    [f \in {"Addressable", "Service", "Profile"} |->
        {[Id |-> i, Name |-> i] : i \in RefIds}]

\* The DeviceReports of the registry at start.
InitialReports == {[Id |-> i, Device |-> ReportOwner] : i \in ReportIds}

NoResponse == [status |-> 0, body |-> ""]
Response(s, b) == [status |-> s, body |-> b]

VARIABLES
    devices,      \* the registry's device collection: a set of device records
    nextId,       \* the next ObjectId the registry hands out
    reports,      \* the registry's DeviceReport collection
    refs,         \* the registries of Addressables, DeviceServices and DeviceProfiles
    postChanges,  \* configuration.NotificationPostDeviceChanges
    budget,       \* failures the environment may still inject (-1: any number)
    quota,        \* requests the handlers may still accept (-1: any number)
    pc,           \* per handler: the step it is at
    op,           \* per handler: the handler function that is running
    rd,           \* per handler: the body or URL parameters of its latest request
    d,            \* per handler: its local device variable (d, oldDevice)
    found,        \* per handler: the slice GetDeviceReportByDeviceName filled
    ri,           \* per handler: how many entries of that slice the loop has passed
    notes,        \* per handler: the notifications of this request that were delivered, in order
    resp          \* per handler: the response written (status 0: none yet)

vars == <<devices, nextId, reports, refs, postChanges, budget, quota, pc, op, rd, d, found,
          ri, notes, resp>>
registry == <<devices, nextId, reports>>

\* The reference entities stored now.
Addressables == refs.Addressable
DeviceServices == refs.Service
DeviceProfiles == refs.Profile

(***************************************************************************)
(* The registry facade (dbClient).  A lookup returns the set of matching   *)
(* records: the empty set is the failed lookup.                            *)
(***************************************************************************)
GetDeviceById(id) == {x \in devices : x.Id = id}
GetDeviceByName(n) == {x \in devices : x.Name = n}
GetAddressableById(id) == {e \in Addressables : e.Id = id}
GetAddressableByName(n) == {e \in Addressables : e.Name = n}
GetDeviceServiceById(id) == {e \in DeviceServices : e.Id = id}
GetDeviceServiceByName(n) == {e \in DeviceServices : e.Name = n}
GetDeviceProfileById(id) == {e \in DeviceProfiles : e.Id = id}
GetDeviceProfileByName(n) == {e \in DeviceProfiles : e.Name = n}

\* The registry's uniqueness constraint on the device Name.
NameTaken(dev) == \E x \in devices : x.Name = dev.Name /\ x.Id /= dev.Id

\* AddDevice: rejects a used Name (db.ErrNotUnique), else stores the device
\* under a fresh ObjectId.
AddDeviceNotUnique(dev) == \E x \in devices : x.Name = dev.Name
AddDevice(dev) == devices \cup {[dev EXCEPT !.Id = nextId]}

\* (mutant) UpdateDevice without the uniqueness constraint on the Name.
UpdateDeviceFailsUnconstrained(dev) == GetDeviceById(dev.Id) = {}

\* UpdateDevice: replaces the record stored under dev.Id; fails when there is
\* none or when the Name belongs to another device.
UpdateDeviceFails(dev) == GetDeviceById(dev.Id) = {} \/ NameTaken(dev)
UpdateDevice(dev) == {x \in devices : x.Id /= dev.Id} \cup {dev}

\* DeleteDevice: removes the record stored under dev.Id; fails when there is none.
DeleteDeviceFails(dev) == GetDeviceById(dev.Id) = {}
DeleteDevice(dev) == {x \in devices : x.Id /= dev.Id}

\* GetDeviceReportByDeviceName: the reports of a device name, in the
\* registry's enumeration order (ascending Id).
RECURSIVE InIdOrder(_)
InIdOrder(S) ==
    IF S = {} THEN << >>
    ELSE LET first == CHOOSE r \in S : \A o \in S : r.Id <= o.Id
         IN  <<first>> \o InIdOrder(S \ {first})
GetDeviceReportByDeviceName(n) == InIdOrder({r \in reports : r.Device = n})

\* DeleteDeviceReport: removes the report; fails when it is not stored.
DeleteDeviceReportFails(r) == r \notin reports
DeleteDeviceReport(r) == reports \ {r}

(***************************************************************************)
(* Failure injection: a registry or notifier call may fail for a reason of *)
(* the backend while the budget is not used up.                            *)
(***************************************************************************)
Outcomes == IF budget /= 0 THEN {"ok", "fail"} ELSE {"ok"}
Spend(o) == budget' = IF o = "fail" /\ budget > 0 THEN budget - 1 ELSE budget

(***************************************************************************)
(* Reference resolution.  The result is the set holding the entity found,  *)
(* empty when both lookups fail.                                           *)
(***************************************************************************)
\* restAddNewDevice: by name first, by id when the name lookup fails.
ByNameThenId(byName, byId) == IF byName /= {} THEN byName ELSE byId
\* updateDeviceFields: by id first, by name when the id lookup fails.
ByIdThenName(byId, byName) == IF byId /= {} THEN byId ELSE byName

The(S) == CHOOSE x \in S : TRUE

(***************************************************************************)
(* Notification.                                                           *)
(***************************************************************************)
\* The action a handler notifies with (http.MethodPost/Put/Delete).
ActionOf(h) ==
    IF h = "restAddNewDevice" THEN "POST"
    ELSE IF h \in {"restDeleteDeviceById", "restDeleteDeviceByName"} THEN "DELETE"
    ELSE "PUT"

Event(kind, name, id, action, services) ==
    [kind |-> kind, name |-> name, id |-> id, action |-> action,
     services |-> services]

\* (mutant) the notification is sent whatever the flag says.
postNotificationAlways(name, action, delivery) ==
    IF delivery = "ok" THEN <<Event("external", name, 0, action, << >>)>> ELSE << >>

\* postNotification: sends to the notification sink when the flag is set.
\* The result of SendNotification is dropped (1229): the event reaches the
\* sink when the delivery succeeds, and nothing else depends on it.
postNotification(name, action, delivery) ==
    IF postChanges /\ delivery = "ok"
    THEN <<Event("external", name, 0, action, << >>)>>
    ELSE << >>

\* notifyDeviceAssociates falling back to the name of the embedded service
\* when its id is not registered.
notifyDeviceAssociatesByName(dev, action, delivery, lookup, callback) ==
    LET ext == postNotification(dev.Name, action, delivery)
        ds  == ByIdThenName(GetDeviceServiceById(dev.Service.Id),
                            GetDeviceServiceByName(dev.Service.Name))
    IN  IF lookup = "fail" \/ ds = {}
        THEN [events |-> ext, err |-> TRUE]
        ELSE IF callback = "fail"
        THEN [events |-> ext, err |-> TRUE]
        ELSE [events |-> ext \o <<Event("associate", "", dev.Id, action, <<The(ds)>>)>>,
              err |-> FALSE]

\* notifyDeviceAssociates: the events it dispatches and whether it returns an
\* error, given the outcomes of the delivery to the notification sink, of the
\* service lookup and of notifyAssociates.
notifyDeviceAssociates(dev, action, delivery, lookup, callback) ==
    LET ext == postNotification(dev.Name, action, delivery)
        ds  == GetDeviceServiceById(dev.Service.Id)
    IN  IF lookup = "fail" \/ ds = {}
        THEN [events |-> ext, err |-> TRUE]
        ELSE IF callback = "fail"
        THEN [events |-> ext, err |-> TRUE]
        ELSE [events |-> ext \o <<Event("associate", "", dev.Id, action, <<The(ds)>>)>>,
              err |-> FALSE]

\* notifyDeviceReportAssociates (rest_devicereport.go), result ignored by the
\* cascade: a deleted-report event.
notifyDeviceReportAssociates(report, action) ==
    <<Event("report", report.Device, report.Id, action, << >>)>>

(***************************************************************************)
(* Initial state: an empty device collection, the reports of ReportOwner,  *)
(* every handler idle.                                                     *)
(***************************************************************************)
InitCommon ==
    /\ devices = {}
    /\ nextId = 1
    /\ reports = InitialReports
    /\ refs = InitialRefs
    /\ postChanges \in BOOLEAN
    /\ pc = [p \in Procs |-> "idle"]
    /\ op = [p \in Procs |-> ""]
    /\ rd = [p \in Procs |-> ZeroDevice]
    /\ d = [p \in Procs |-> ZeroDevice]
    /\ found = [p \in Procs |-> << >>]
    /\ ri = [p \in Procs |-> 0]
    /\ notes = [p \in Procs |-> << >>]
    /\ resp = [p \in Procs |-> NoResponse]

\* The concurrent specification runs with the external notification enabled.
Init == InitCommon /\ postChanges /\ budget = -1 /\ quota = MaxRequests

\* A handler is free to take a new request.
Free(p) == pc[p] \in {"idle", "done"}

\* The handler accepts request h with the decoded body or parameters request.
Begin(p, h, request) ==
    /\ Free(p)
    /\ quota /= 0
    /\ quota' = IF quota > 0 THEN quota - 1 ELSE quota
    /\ op' = [op EXCEPT ![p] = h]
    /\ rd' = [rd EXCEPT ![p] = request]

\* The handler writes its response and returns: its locals are gone, the
\* request it served stays on record.
Reply(p, status, body) ==
    /\ pc' = [pc EXCEPT ![p] = "done"]
    /\ resp' = [resp EXCEPT ![p] = Response(status, body)]
    /\ d' = [d EXCEPT ![p] = ZeroDevice]
    /\ found' = [found EXCEPT ![p] = << >>]
    /\ ri' = [ri EXCEPT ![p] = 0]

\* The handler goes on to step with device variable dev.
Goto(p, step, dev) ==
    /\ pc' = [pc EXCEPT ![p] = step]
    /\ resp' = [resp EXCEPT ![p] = NoResponse]
    /\ d' = [d EXCEPT ![p] = dev]

\* The notifications of the handler's request so far.
Dispatch(p, events) == notes' = [notes EXCEPT ![p] = @ \o events]
NoDispatch(p) == notes' = [notes EXCEPT ![p] = @]
Fresh(p) == notes' = [notes EXCEPT ![p] = << >>]

(***************************************************************************)
(* restAddNewDevice                                                        *)
(***************************************************************************)
\* (mutant) the Profile check is left out: an unresolved Profile stays as sent.
CheckNewDeviceNoProfile(body) ==
    LET a  == ByNameThenId(GetAddressableByName(body.Addressable.Name),
                           GetAddressableById(body.Addressable.Id))
        s  == ByNameThenId(GetDeviceServiceByName(body.Service.Name),
                           GetDeviceServiceById(body.Service.Id))
        pr == ByNameThenId(GetDeviceProfileByName(body.Profile.Name),
                           GetDeviceProfileById(body.Profile.Id))
    IN  IF a = {} THEN [err |-> "A device must be associated to an Addressable", dev |-> body]
        ELSE IF s = {} THEN [err |-> "A device must be associated with a device service", dev |-> body]
        ELSE IF body.OperatingState = "" \/ body.AdminState = ""
        THEN [err |-> "Device can't have null operating state or admin state", dev |-> body]
        ELSE [err |-> "",
              dev |-> [body EXCEPT !.Addressable = The(a), !.Service = The(s),
                                   !.Profile = IF pr = {} THEN @ ELSE The(pr)]]

\* (mutant) the references are tried by id first, as updateDeviceFields does.
CheckNewDeviceIdFirst(body) ==
    LET a  == ByIdThenName(GetAddressableById(body.Addressable.Id),
                           GetAddressableByName(body.Addressable.Name))
        s  == ByIdThenName(GetDeviceServiceById(body.Service.Id),
                           GetDeviceServiceByName(body.Service.Name))
        pr == ByIdThenName(GetDeviceProfileById(body.Profile.Id),
                           GetDeviceProfileByName(body.Profile.Name))
    IN  IF a = {} THEN [err |-> "A device must be associated to an Addressable", dev |-> body]
        ELSE IF s = {} THEN [err |-> "A device must be associated with a device service", dev |-> body]
        ELSE IF pr = {} THEN [err |-> "A device must be associated with a device profile", dev |-> body]
        ELSE IF body.OperatingState = "" \/ body.AdminState = ""
        THEN [err |-> "Device can't have null operating state or admin state", dev |-> body]
        ELSE [err |-> "",
              dev |-> [body EXCEPT !.Addressable = The(a), !.Service = The(s),
                                   !.Profile = The(pr)]]

\* (mutant) the states are checked before the references.
CheckNewDeviceStatesFirst(body) ==
    LET a  == ByNameThenId(GetAddressableByName(body.Addressable.Name),
                           GetAddressableById(body.Addressable.Id))
        s  == ByNameThenId(GetDeviceServiceByName(body.Service.Name),
                           GetDeviceServiceById(body.Service.Id))
        pr == ByNameThenId(GetDeviceProfileByName(body.Profile.Name),
                           GetDeviceProfileById(body.Profile.Id))
    IN  IF body.OperatingState = "" \/ body.AdminState = ""
        THEN [err |-> "Device can't have null operating state or admin state", dev |-> body]
        ELSE IF a = {} THEN [err |-> "A device must be associated to an Addressable", dev |-> body]
        ELSE IF s = {} THEN [err |-> "A device must be associated with a device service", dev |-> body]
        ELSE IF pr = {} THEN [err |-> "A device must be associated with a device profile", dev |-> body]
        ELSE [err |-> "",
              dev |-> [body EXCEPT !.Addressable = The(a), !.Service = The(s),
                                   !.Profile = The(pr)]]

\* Lines 69-114: the reference checks and the state check on the decoded
\* body: the device with its references replaced, or the 409 message.
CheckNewDevice(body) ==
    LET a  == ByNameThenId(GetAddressableByName(body.Addressable.Name),
                           GetAddressableById(body.Addressable.Id))
        s  == ByNameThenId(GetDeviceServiceByName(body.Service.Name),
                           GetDeviceServiceById(body.Service.Id))
        pr == ByNameThenId(GetDeviceProfileByName(body.Profile.Name),
                           GetDeviceProfileById(body.Profile.Id))
    IN  IF a = {} THEN [err |-> "A device must be associated to an Addressable", dev |-> body]
        ELSE IF s = {} THEN [err |-> "A device must be associated with a device service", dev |-> body]
        ELSE IF pr = {} THEN [err |-> "A device must be associated with a device profile", dev |-> body]
        ELSE IF body.OperatingState = "" \/ body.AdminState = ""
        THEN [err |-> "Device can't have null operating state or admin state", dev |-> body]
        ELSE [err |-> "",
              dev |-> [body EXCEPT !.Addressable = The(a), !.Service = The(s),
                                   !.Profile = The(pr)]]

\* The handler decodes the body and checks it (no registry state is written).
AddNewDeviceCheck(p, body) ==
    /\ Begin(p, "restAddNewDevice", body)
    /\ nextId + Cardinality({q \in Procs : pc[q] = "add"}) <= MaxDevices
    /\ Fresh(p)
    /\ LET c == CheckNewDevice(body)
       IN  IF c.err /= ""
           THEN Reply(p, StatusConflict, c.err)
           ELSE /\ Goto(p, "add", c.dev)
                /\ UNCHANGED <<found, ri>>
    /\ UNCHANGED <<registry, refs, postChanges, budget>>

\* (mutant) db.ErrNotUnique is not answered: the handler goes on to notify.
AddNewDeviceAddUnchecked(p) ==
    /\ pc[p] = "add"
    /\ \E o \in Outcomes :
        /\ Spend(o)
        /\ IF o = "fail"
           THEN /\ Reply(p, StatusServiceUnavailable, "AddDevice failed")
                /\ UNCHANGED registry
           ELSE IF AddDeviceNotUnique(d[p])
           THEN /\ Goto(p, "notify", d[p])
                /\ UNCHANGED <<registry, found, ri>>
           ELSE /\ devices' = AddDevice(d[p])
                /\ nextId' = nextId + 1
                /\ Goto(p, "notify", [d[p] EXCEPT !.Id = nextId])
                /\ UNCHANGED <<reports, found, ri>>
    /\ UNCHANGED <<refs, postChanges, quota, op, rd, notes>>

\* Lines 116-126: dbClient.AddDevice(&d).
AddNewDeviceAdd(p) ==
    /\ pc[p] = "add"
    /\ \E o \in Outcomes :
        /\ Spend(o)
        /\ IF o = "fail"
           THEN /\ Reply(p, StatusServiceUnavailable, "AddDevice failed")
                /\ UNCHANGED registry
           ELSE IF AddDeviceNotUnique(d[p])
           THEN /\ Reply(p, StatusConflict, "Duplicate name for device")
                /\ UNCHANGED registry
           ELSE /\ devices' = AddDevice(d[p])
                /\ nextId' = nextId + 1
                /\ Goto(p, "notify", [d[p] EXCEPT !.Id = nextId])
                /\ UNCHANGED <<reports, found, ri>>
    /\ UNCHANGED <<refs, postChanges, quota, op, rd, notes>>

(***************************************************************************)
(* restUpdateDevice                                                        *)
(***************************************************************************)
\* (mutant) the device is looked up by the patch's Name first.
UpdateDeviceByNameFirst(p, body) ==
    /\ Begin(p, "restUpdateDevice", body)
    /\ Fresh(p)
    /\ \E o \in Outcomes :
        /\ Spend(o)
        /\ LET byName == IF o = "fail" THEN {} ELSE GetDeviceByName(body.Name)
               byId == IF o = "fail" THEN {} ELSE GetDeviceById(body.Id)
           IN  IF byName /= {}
               THEN Goto(p, "merge", The(byName))
               ELSE IF byId /= {}
               THEN Goto(p, "merge", The(byId))
               ELSE Goto(p, "byname", ZeroDevice)
    /\ UNCHANGED <<registry, refs, postChanges, found, ri>>

\* Lines 150-151: the device is looked up by the body's Id first.
UpdateDeviceById(p, body) ==
    /\ Begin(p, "restUpdateDevice", body)
    /\ Fresh(p)
    /\ \E o \in Outcomes :
        /\ Spend(o)
        /\ LET byId == IF o = "fail" THEN {} ELSE GetDeviceById(body.Id)
           IN  IF byId /= {}
               THEN Goto(p, "merge", The(byId))
               ELSE Goto(p, "byname", ZeroDevice)
    /\ UNCHANGED <<registry, refs, postChanges, found, ri>>

\* Lines 152-160: then by the body's Name; 404 when that fails too.
UpdateDeviceByName(p) ==
    /\ pc[p] = "byname"
    /\ \E o \in Outcomes :
        /\ Spend(o)
        /\ LET byName == IF o = "fail" THEN {} ELSE GetDeviceByName(rd[p].Name)
           IN  IF byName /= {}
               THEN Goto(p, "merge", The(byName)) /\ UNCHANGED <<found, ri>>
               ELSE Reply(p, StatusNotFound, "not found")
    /\ UNCHANGED <<registry, refs, postChanges, quota, op, rd, notes>>

\* Lines 183-227: the references of the patch, resolved by id then name.
MergeAddressable(from, to) ==
    LET a == ByIdThenName(GetAddressableById(from.Addressable.Id),
                          GetAddressableByName(from.Addressable.Name))
    IN  IF from.Addressable = ZeroRef THEN [err |-> "", dev |-> to]
        ELSE IF a = {} THEN [err |-> "Addressable not found for updated device", dev |-> to]
        ELSE [err |-> "", dev |-> [to EXCEPT !.Addressable = The(a)]]

\* The Service block looking the stored service up again when the patch
\* names none.
MergeServiceRefresh(from, to) ==
    LET hint == IF from.Service = ZeroRef THEN to.Service ELSE from.Service
        ds == ByIdThenName(GetDeviceServiceById(hint.Id),
                           GetDeviceServiceByName(hint.Name))
    IN  IF ds = {} THEN [err |-> "Device service not found for updated device", dev |-> to]
        ELSE [err |-> "", dev |-> [to EXCEPT !.Service = The(ds)]]

MergeService(from, to) ==
    LET ds == ByIdThenName(GetDeviceServiceById(from.Service.Id),
                           GetDeviceServiceByName(from.Service.Name))
    IN  IF from.Service = ZeroRef THEN [err |-> "", dev |-> to]
        ELSE IF ds = {} THEN [err |-> "Device service not found for updated device", dev |-> to]
        ELSE [err |-> "", dev |-> [to EXCEPT !.Service = The(ds)]]

MergeProfile(from, to) ==
    LET dp == ByIdThenName(GetDeviceProfileById(from.Profile.Id),
                           GetDeviceProfileByName(from.Profile.Name))
    IN  IF from.Profile = ZeroRef THEN [err |-> "", dev |-> to]
        ELSE IF dp = {} THEN [err |-> "Device profile not found for updated device", dev |-> to]
        ELSE [err |-> "", dev |-> [to EXCEPT !.Profile = The(dp)]]

\* (mutant) the timestamps and the Origin are copied from the patch as sent.
MergeScalarsOverwrite(from, to) ==
    [to EXCEPT
       !.AdminState = IF from.AdminState /= "" THEN from.AdminState ELSE @,
       !.Description = IF from.Description /= "" THEN from.Description ELSE @,
       !.Labels = IF from.Labels /= NilLabels THEN from.Labels ELSE @,
       !.LastConnected = from.LastConnected,
       !.LastReported = from.LastReported,
       !.Location = IF from.Location /= NilLocation THEN from.Location ELSE @,
       !.OperatingState = IF from.OperatingState /= "" THEN from.OperatingState ELSE @,
       !.Origin = from.Origin]

\* Lines 228-251: the scalar fields, each overwritten when the patch's value
\* is not the zero value.
MergeScalars(from, to) ==
    [to EXCEPT
       !.AdminState = IF from.AdminState /= "" THEN from.AdminState ELSE @,
       !.Description = IF from.Description /= "" THEN from.Description ELSE @,
       !.Labels = IF from.Labels /= NilLabels THEN from.Labels ELSE @,
       !.LastConnected = IF from.LastConnected /= 0 THEN from.LastConnected ELSE @,
       !.LastReported = IF from.LastReported /= 0 THEN from.LastReported ELSE @,
       !.Location = IF from.Location /= NilLocation THEN from.Location ELSE @,
       !.OperatingState = IF from.OperatingState /= "" THEN from.OperatingState ELSE @,
       !.Origin = IF from.Origin /= 0 THEN from.Origin ELSE @]

\* Lines 252-275: the Name and its uniqueness check; lookup is the outcome of
\* GetDeviceByName ("fail": an error other than mgo.ErrNotFound).
MergeName(from, to, lookup) ==
    LET checkD == GetDeviceByName(from.Name)
        named == [to EXCEPT !.Name = from.Name]
    IN  IF from.Name = "" THEN [err |-> "", dev |-> to]
        ELSE IF lookup = "fail" THEN [err |-> "GetDeviceByName failed", dev |-> named]
        ELSE IF checkD /= {} /\ The(checkD).Id /= to.Id
        THEN [err |-> "Duplicate name for Device", dev |-> named]
        ELSE [err |-> "", dev |-> named]

\* (mutant) the Name and its uniqueness come first, the references after.
updateDeviceFieldsNameFirst(from, to, lookup) ==
    LET n == MergeName(from, to, lookup)
        a == MergeAddressable(from, n.dev)
        s == MergeService(from, a.dev)
        pr == MergeProfile(from, s.dev)
    IN  IF n.err /= "" THEN n
        ELSE IF a.err /= "" THEN a
        ELSE IF s.err /= "" THEN s
        ELSE IF pr.err /= "" THEN pr
        ELSE [err |-> "", dev |-> MergeScalars(from, pr.dev)]

\* updateDeviceFields(from, to): the error it returns ("": nil) and the value
\* it leaves in *to.
updateDeviceFields(from, to, lookup) ==
    LET a == MergeAddressable(from, to)
        s == MergeService(from, a.dev)
        pr == MergeProfile(from, s.dev)
    IN  IF a.err /= "" THEN a
        ELSE IF s.err /= "" THEN s
        ELSE IF pr.err /= "" THEN pr
        ELSE MergeName(from, MergeScalars(from, pr.dev), lookup)

\* (mutant) the patch is merged into the record stored now, read again,
\* rather than into the copy the handler fetched.
UpdateDeviceMergeReread(p) ==
    /\ pc[p] = "merge"
    /\ \E o \in (IF rd[p].Name = "" THEN {"ok"} ELSE Outcomes) :
        /\ Spend(o)
        /\ LET now == GetDeviceById(d[p].Id)
               m == updateDeviceFields(rd[p], IF now = {} THEN d[p] ELSE The(now), o)
           IN  IF m.err /= ""
               THEN Reply(p, StatusServiceUnavailable, m.err)
               ELSE Goto(p, "persist", m.dev) /\ UNCHANGED <<found, ri>>
    /\ UNCHANGED <<registry, refs, postChanges, quota, op, rd, notes>>

\* (mutant) the merge works on the stored record: what it overwrote before
\* the error stays in the registry.
UpdateDeviceMergeInPlace(p) ==
    /\ pc[p] = "merge"
    /\ \E o \in (IF rd[p].Name = "" THEN {"ok"} ELSE Outcomes) :
        /\ Spend(o)
        /\ LET m == updateDeviceFields(rd[p], d[p], o)
           IN  IF m.err /= ""
               THEN /\ Reply(p, StatusServiceUnavailable, m.err)
                    /\ devices' = {x \in devices : x.Id /= m.dev.Id}
                                     \cup {[m.dev EXCEPT !.Name = d[p].Name]}
               ELSE /\ Goto(p, "persist", m.dev) /\ UNCHANGED <<found, ri>>
                    /\ UNCHANGED devices
    /\ UNCHANGED <<nextId, reports, refs, postChanges, quota, op, rd, notes>>

\* Lines 162-166: the merge into oldDevice; any error is a 503.
UpdateDeviceMerge(p) ==
    /\ pc[p] = "merge"
    /\ \E o \in (IF rd[p].Name = "" THEN {"ok"} ELSE Outcomes) :
        /\ Spend(o)
        /\ LET m == updateDeviceFields(rd[p], d[p], o)
           IN  IF m.err /= ""
               THEN Reply(p, StatusServiceUnavailable, m.err)
               ELSE Goto(p, "persist", m.dev) /\ UNCHANGED <<found, ri>>
    /\ UNCHANGED <<registry, refs, postChanges, quota, op, rd, notes>>

(***************************************************************************)
(* The single-field setters.                                               *)
(***************************************************************************)
OpStateHandlers == {"restSetDeviceOpStateById", "restSetDeviceOpStateByName"}
AdminStateHandlers == {"restSetDeviceAdminStateById", "restSetDeviceAdminStateByName"}
\* The ...Notify handlers stand for their calls with notify = true; with
\* notify = false they run the code of the plain handlers.
LastConnectedHandlers ==
    {"restSetDeviceLastConnectedById", "restSetLastConnectedByIdNotify",
     "restSetDeviceLastConnectedByName", "restSetDeviceLastConnectedByNameNotify"}
LastReportedHandlers ==
    {"restSetDeviceLastReportedById", "restSetDeviceLastReportedByIdNotify",
     "restSetDeviceLastReportedByName", "restSetDeviceLastReportedByNameNotify"}
SetterHandlers ==
    OpStateHandlers \cup AdminStateHandlers \cup LastConnectedHandlers
        \cup LastReportedHandlers
ByNameHandlers ==
    {"restSetDeviceOpStateByName", "restSetDeviceAdminStateByName",
     "restSetDeviceLastConnectedByName", "restSetDeviceLastConnectedByNameNotify",
     "restSetDeviceLastReportedByName", "restSetDeviceLastReportedByNameNotify",
     "restDeleteDeviceByName"}
\* (mutant) every setter notifies, the plain last-connected and
\* last-reported setters too.
NotifyingHandlersAll ==
    {"restAddNewDevice", "restUpdateDevice", "restDeleteDeviceById",
     "restDeleteDeviceByName"} \cup OpStateHandlers \cup AdminStateHandlers
        \cup LastConnectedHandlers \cup LastReportedHandlers

\* Handlers that call notifyDeviceAssociates after their registry write.
NotifyingHandlers ==
    {"restAddNewDevice", "restUpdateDevice", "restDeleteDeviceById",
     "restDeleteDeviceByName", "restSetLastConnectedByIdNotify",
     "restSetDeviceLastConnectedByNameNotify", "restSetDeviceLastReportedByIdNotify",
     "restSetDeviceLastReportedByNameNotify"}
        \cup OpStateHandlers \cup AdminStateHandlers
\* Handlers that answer 503 when notifyDeviceAssociates returns an error.
CheckingHandlers ==
    {"restDeleteDeviceById", "restDeleteDeviceByName"} \cup AdminStateHandlers

\* models.GetOperatingState / models.GetAdminState: whether the string names
\* a state.
GetOperatingState(os) == os \in {"ENABLED", "DISABLED"}
GetAdminState(as) == as \in {"LOCKED", "UNLOCKED"}

\* (mutant) the state parameter of a setter is not validated.
ValidStateAny(h, params) == TRUE

\* The URL parameters of a setter are valid for its handler.
ValidState(h, params) ==
    /\ h \in OpStateHandlers => GetOperatingState(params.OperatingState)
    /\ h \in AdminStateHandlers => GetAdminState(params.AdminState)

\* The timestamp setters skipping a zero as the merge does.
SetFieldNonZero(h, dev, params) ==
    IF h \in OpStateHandlers THEN [dev EXCEPT !.OperatingState = params.OperatingState]
    ELSE IF h \in AdminStateHandlers THEN [dev EXCEPT !.AdminState = params.AdminState]
    ELSE IF h \in LastConnectedHandlers
    THEN [dev EXCEPT !.LastConnected =
                        IF params.LastConnected /= 0 THEN params.LastConnected ELSE @]
    ELSE [dev EXCEPT !.LastReported =
                        IF params.LastReported /= 0 THEN params.LastReported ELSE @]

\* The field a setter assigns on the fetched device.
SetField(h, dev, params) ==
    IF h \in OpStateHandlers THEN [dev EXCEPT !.OperatingState = params.OperatingState]
    ELSE IF h \in AdminStateHandlers THEN [dev EXCEPT !.AdminState = params.AdminState]
    ELSE IF h \in LastConnectedHandlers THEN [dev EXCEPT !.LastConnected = params.LastConnected]
    ELSE [dev EXCEPT !.LastReported = params.LastReported]

\* The device a by-id or by-name handler fetches.
Fetch(h, params) ==
    IF h \in ByNameHandlers THEN GetDeviceByName(params.Name) ELSE GetDeviceById(params.Id)

\* A setter up to its registry write: parameter check, fetch, assignment.
SetterFetch(p, h, params) ==
    /\ Begin(p, h, params)
    /\ Fresh(p)
    /\ IF ~ValidState(h, params)
       THEN /\ Reply(p, StatusServiceUnavailable, "Invalid State")
            /\ UNCHANGED budget
       ELSE \E o \in Outcomes :
            /\ Spend(o)
            /\ IF o = "fail"
               THEN Reply(p, StatusServiceUnavailable, "lookup failed")
               ELSE IF Fetch(h, params) = {}
               THEN Reply(p, StatusNotFound, "not found")
               ELSE /\ Goto(p, "persist", SetField(h, The(Fetch(h, params)), params))
                    /\ UNCHANGED <<found, ri>>
    /\ UNCHANGED <<registry, refs, postChanges>>

\* (mutant) the error of dbClient.UpdateDevice is not checked: the handler
\* goes on to its notification.
PersistUnchecked(p) ==
    /\ pc[p] = "persist"
    /\ \E o \in Outcomes :
        /\ Spend(o)
        /\ IF o = "fail" \/ UpdateDeviceFails(d[p])
           THEN UNCHANGED devices
           ELSE devices' = UpdateDevice(d[p])
        /\ IF op[p] \in NotifyingHandlers
           THEN Goto(p, "notify", d[p]) /\ UNCHANGED <<found, ri>>
           ELSE Reply(p, StatusOK, "true")
    /\ UNCHANGED <<nextId, reports, refs, postChanges, quota, op, rd, notes>>

\* dbClient.UpdateDevice of restUpdateDevice (168-172) and of the setters.
\* restSetDeviceOpStateById returns on its error without writing a response
\* (578-580): the server then answers 200 with an empty body.
Persist(p) ==
    /\ pc[p] = "persist"
    /\ \E o \in Outcomes :
        /\ Spend(o)
        /\ IF o = "fail" \/ UpdateDeviceFails(d[p])
           THEN /\ IF op[p] = "restSetDeviceOpStateById"
                   THEN Reply(p, StatusOK, "")
                   ELSE Reply(p, StatusServiceUnavailable, "UpdateDevice failed")
                /\ UNCHANGED devices
           ELSE /\ devices' = UpdateDevice(d[p])
                /\ IF op[p] \in NotifyingHandlers
                   THEN Goto(p, "notify", d[p]) /\ UNCHANGED <<found, ri>>
                   ELSE Reply(p, StatusOK, "true")
    /\ UNCHANGED <<nextId, reports, refs, postChanges, quota, op, rd, notes>>

(***************************************************************************)
(* restGetAllDevices                                                       *)
(***************************************************************************)
\* json.NewEncoder(w).Encode(&res): the text of the devices read.
Encode(res) == ToString(res)

\* (mutant) a result over the limit is cut down to the limit.
restGetAllDevicesTruncating(p) ==
    /\ Begin(p, "restGetAllDevices", ZeroDevice)
    /\ Fresh(p)
    /\ \E o \in Outcomes :
        /\ Spend(o)
        /\ IF o = "fail"
           THEN Reply(p, StatusServiceUnavailable, "GetAllDevices failed")
           ELSE \E res \in SUBSET devices :
                   /\ Cardinality(res) <= ReadMaxLimit
                   /\ res = devices \/ Cardinality(res) = ReadMaxLimit
                   /\ Reply(p, StatusOK, Encode(res))
    /\ UNCHANGED <<registry, refs, postChanges>>

\* Lines 33-52: every device is read; more than configuration.ReadMaxLimit
\* of them is a 413, otherwise they are all encoded into the response.
restGetAllDevices(p) ==
    /\ Begin(p, "restGetAllDevices", ZeroDevice)
    /\ Fresh(p)
    /\ \E o \in Outcomes :
        /\ Spend(o)
        /\ IF o = "fail"
           THEN Reply(p, StatusServiceUnavailable, "GetAllDevices failed")
           ELSE IF Cardinality(devices) > ReadMaxLimit
           THEN Reply(p, StatusRequestEntityTooLarge, "Max limit exceeded")
           ELSE Reply(p, StatusOK, Encode(devices))
    /\ UNCHANGED <<registry, refs, postChanges>>

(***************************************************************************)
(* restDeleteDeviceById / restDeleteDeviceByName and the cascade           *)
(***************************************************************************)
\* Lines 736-737 and 761-767: the handler takes the id or the name from the
\* URL.
DeleteDeviceBegin(p, h, params) ==
    /\ Begin(p, h, params)
    /\ Fresh(p)
    /\ Goto(p, "fetch", ZeroDevice)
    /\ UNCHANGED <<registry, refs, postChanges, budget, found, ri>>

\* Lines 739-750 and 769-776: the device is fetched; by id a backend error is
\* a 503, by name every error is a 404.
DeleteDeviceFetch(p) ==
    /\ pc[p] = "fetch"
    /\ \E o \in Outcomes :
        /\ Spend(o)
        /\ IF o = "fail"
           THEN Reply(p, IF op[p] = "restDeleteDeviceByName" THEN StatusNotFound
                         ELSE StatusServiceUnavailable, "lookup failed")
           ELSE IF Fetch(op[p], rd[p]) = {}
           THEN Reply(p, StatusNotFound, "not found")
           ELSE /\ Goto(p, "enumerate", The(Fetch(op[p], rd[p])))
                /\ UNCHANGED <<found, ri>>
    /\ UNCHANGED <<registry, refs, postChanges, quota, op, rd, notes>>

\* (mutant) the reports are enumerated but the cascade is skipped.
DeleteDeviceEnumerateSkip(p) ==
    /\ pc[p] = "enumerate"
    /\ \E o \in Outcomes :
        /\ Spend(o)
        /\ IF o = "fail"
           THEN Reply(p, StatusServiceUnavailable, "GetDeviceReportByDeviceName failed")
           ELSE /\ found' = [found EXCEPT ![p] = GetDeviceReportByDeviceName(d[p].Name)]
                /\ Goto(p, "deleteDevice", d[p])
                /\ UNCHANGED ri
    /\ UNCHANGED <<registry, refs, postChanges, quota, op, rd, notes>>

\* Lines 810-815: deleteAssociatedReportsForDevice enumerates the reports of
\* the device's Name.
DeleteDeviceEnumerate(p) ==
    /\ pc[p] = "enumerate"
    /\ \E o \in Outcomes :
        /\ Spend(o)
        /\ IF o = "fail"
           THEN Reply(p, StatusServiceUnavailable, "GetDeviceReportByDeviceName failed")
           ELSE /\ found' = [found EXCEPT ![p] = GetDeviceReportByDeviceName(d[p].Name)]
                /\ Goto(p, IF GetDeviceReportByDeviceName(d[p].Name) = << >>
                           THEN "deleteDevice" ELSE "reports", d[p])
                /\ UNCHANGED ri
    /\ UNCHANGED <<registry, refs, postChanges, quota, op, rd, notes>>

\* (mutant) a report whose deletion fails is passed over.
DeleteDeviceReportStepIgnoring(p) ==
    /\ pc[p] = "reports"
    /\ \E o \in Outcomes :
        /\ Spend(o)
        /\ LET report == found[p][ri[p] + 1]
           IN  /\ IF o = "fail" \/ DeleteDeviceReportFails(report)
                  THEN NoDispatch(p) /\ UNCHANGED reports
                  ELSE /\ reports' = DeleteDeviceReport(report)
                       /\ Dispatch(p, notifyDeviceReportAssociates(report, "DELETE"))
               /\ ri' = [ri EXCEPT ![p] = @ + 1]
               /\ Goto(p, IF ri[p] + 1 = Len(found[p])
                          THEN "deleteDevice" ELSE "reports", d[p])
               /\ UNCHANGED found
    /\ UNCHANGED <<devices, nextId, refs, postChanges, quota, op, rd>>

\* (mutant) the notification of a report is dispatched before its deletion
\* is known to have succeeded.
DeleteDeviceReportStepNotifyFirst(p) ==
    /\ pc[p] = "reports"
    /\ \E o \in Outcomes :
        /\ Spend(o)
        /\ LET report == found[p][ri[p] + 1]
           IN  /\ Dispatch(p, notifyDeviceReportAssociates(report, "DELETE"))
               /\ IF o = "fail" \/ DeleteDeviceReportFails(report)
                  THEN /\ Reply(p, StatusServiceUnavailable, "DeleteDeviceReport failed")
                       /\ UNCHANGED reports
                  ELSE /\ reports' = DeleteDeviceReport(report)
                       /\ ri' = [ri EXCEPT ![p] = @ + 1]
                       /\ Goto(p, IF ri[p] + 1 = Len(found[p])
                                  THEN "deleteDevice" ELSE "reports", d[p])
                       /\ UNCHANGED found
    /\ UNCHANGED <<devices, nextId, refs, postChanges, quota, op, rd>>

\* Lines 818-825: one pass of the loop: the next report is deleted and its
\* notification dispatched; an error ends the cascade with a 503.
DeleteDeviceReportStep(p) ==
    /\ pc[p] = "reports"
    /\ \E o \in Outcomes :
        /\ Spend(o)
        /\ LET report == found[p][ri[p] + 1]
           IN  IF o = "fail" \/ DeleteDeviceReportFails(report)
               THEN /\ Reply(p, StatusServiceUnavailable, "DeleteDeviceReport failed")
                    /\ NoDispatch(p)
                    /\ UNCHANGED reports
               ELSE /\ reports' = DeleteDeviceReport(report)
                    /\ ri' = [ri EXCEPT ![p] = @ + 1]
                    /\ Dispatch(p, notifyDeviceReportAssociates(report, "DELETE"))
                    /\ Goto(p, IF ri[p] + 1 = Len(found[p])
                               THEN "deleteDevice" ELSE "reports", d[p])
                    /\ UNCHANGED found
    /\ UNCHANGED <<devices, nextId, refs, postChanges, quota, op, rd>>

\* (mutant) the error of dbClient.DeleteDevice is not checked.
DeleteDeviceRecordUnchecked(p) ==
    /\ pc[p] = "deleteDevice"
    /\ \E o \in Outcomes :
        /\ Spend(o)
        /\ devices' = IF o = "fail" \/ DeleteDeviceFails(d[p]) THEN devices
                      ELSE DeleteDevice(d[p])
        /\ Goto(p, "notify", d[p])
        /\ UNCHANGED <<found, ri>>
    /\ UNCHANGED <<nextId, reports, refs, postChanges, quota, op, rd, notes>>

\* Lines 794-797: dbClient.DeleteDevice(d).
DeleteDeviceRecord(p) ==
    /\ pc[p] = "deleteDevice"
    /\ \E o \in Outcomes :
        /\ Spend(o)
        /\ IF o = "fail" \/ DeleteDeviceFails(d[p])
           THEN /\ Reply(p, StatusServiceUnavailable, "DeleteDevice failed")
                /\ UNCHANGED devices
           ELSE /\ devices' = DeleteDevice(d[p])
                /\ Goto(p, "notify", d[p])
                /\ UNCHANGED <<found, ri>>
    /\ UNCHANGED <<nextId, reports, refs, postChanges, quota, op, rd, notes>>

(***************************************************************************)
(* The notification that ends a handler, and the response after it.        *)
(***************************************************************************)
\* (mutant) every handler answers "true".
SuccessBodyTrue(h, dev) == "true"

\* The success response of a handler.
SuccessBody(h, dev) == IF h = "restAddNewDevice" THEN ToString(dev.Id) ELSE "true"

\* The notification step of a handler whose notification sink answers with
\* one of deliveries.
NotifyVia(p, deliveries) ==
    /\ pc[p] = "notify"
    /\ \E delivery \in deliveries, lookup \in Outcomes, callback \in Outcomes :
        /\ Spend(IF "fail" \in {lookup, callback} THEN "fail" ELSE "ok")
        /\ LET n == notifyDeviceAssociates(d[p], ActionOf(op[p]), delivery,
                                           lookup, callback)
           IN  /\ Dispatch(p, n.events)
               /\ IF n.err /\ op[p] \in CheckingHandlers
                  THEN Reply(p, StatusServiceUnavailable, "notify failed")
                  ELSE Reply(p, StatusOK, SuccessBody(op[p], d[p]))
    /\ UNCHANGED <<registry, refs, postChanges, quota, op, rd>>

\* The notification step with a notification sink that takes every event.
Notify(p) == NotifyVia(p, {"ok"})

(***************************************************************************)
(* Requests.                                                               *)
(***************************************************************************)
Ref(i, n) == [Id |-> i, Name |-> n]

\* A creation body: a Name, three references and the two states.
NewDevice(n, a, s, pr, os, as) ==
    [ZeroDevice EXCEPT !.Name = n, !.Addressable = a, !.Service = s,
                       !.Profile = pr, !.OperatingState = os, !.AdminState = as]

\* The parameters of a by-id or by-name request on device (id, n).
Target(h, id, n) ==
    IF h \in ByNameHandlers THEN [ZeroDevice EXCEPT !.Name = n]
    ELSE [ZeroDevice EXCEPT !.Id = id]

\* The URL parameters of a setter: its target and the value of its field.
SetterParams(h, id, n, state, time) ==
    SetField(h, Target(h, id, n), [OperatingState |-> state, AdminState |-> state,
                                   LastConnected |-> time, LastReported |-> time])

DeleteHandlers == {"restDeleteDeviceById", "restDeleteDeviceByName"}

\* The requests of the concurrent specification: creations under each Name
\* (one of them with an unresolvable Addressable), renames by Id and by Name,
\* a Description patch, one setter per field and the deletes.
NewDevices ==
    {NewDevice(n, Ref(0, 1), Ref(1, 0), Ref(0, 1), "ENABLED", "UNLOCKED") : n \in Names}
        \cup {NewDevice(ReportOwner, ZeroRef, Ref(1, 0), Ref(0, 1), "ENABLED", "UNLOCKED")}
Patches ==
    {[ZeroDevice EXCEPT !.Id = i, !.Name = n] : i \in 0..MaxDevices, n \in Names}
        \cup {[ZeroDevice EXCEPT !.Id = i, !.Description = "updated"] : i \in DevIds}
ConcurrentSetters ==
    {"restSetDeviceOpStateById", "restSetDeviceAdminStateByName",
     "restSetDeviceLastConnectedById", "restSetDeviceLastReportedByNameNotify"}
SetterRequests(h) ==
    {SetterParams(h, 1, ReportOwner,
                  IF h \in OpStateHandlers THEN "DISABLED" ELSE "LOCKED", 7)}
DeleteRequests(h) == {Target(h, i, n) : i \in DevIds, n \in Names}

(***************************************************************************)
(* The concurrent specification: the handlers of Procs serve MaxRequests   *)
(* requests; any registry or notifier call may fail.                       *)
(***************************************************************************)
Next ==
    \E p \in Procs :
        \/ \E body \in NewDevices : AddNewDeviceCheck(p, body)
        \/ AddNewDeviceAdd(p)
        \/ \E body \in Patches : UpdateDeviceById(p, body)
        \/ UpdateDeviceByName(p)
        \/ UpdateDeviceMerge(p)
        \/ \E h \in ConcurrentSetters : \E params \in SetterRequests(h) :
              SetterFetch(p, h, params)
        \/ Persist(p)
        \/ \E h \in DeleteHandlers : \E params \in DeleteRequests(h) :
              DeleteDeviceBegin(p, h, params)
        \/ DeleteDeviceFetch(p)
        \/ DeleteDeviceEnumerate(p)
        \/ DeleteDeviceReportStep(p)
        \/ DeleteDeviceRecord(p)
        \/ Notify(p)

Spec == Init /\ [][Next]_vars

(***************************************************************************)
(* The sequential specification: one handler serves MaxSeqRequests         *)
(* requests drawn from wider sets: every way a reference can be given,     *)
(* every field of a patch alone and all together, every setter by id and   *)
(* by name with valid and invalid values.                                  *)
(***************************************************************************)
\* A reference as a request gives it: empty, by name only, by id only, an
\* id and the name of another entity, neither known.
UnknownRef == Ref(NumRefs + 1, NumRefs + 1)
NewHints == {ZeroRef, Ref(0, 1), Ref(NumRefs, 0), Ref(1, NumRefs)}
PatchHints == {Ref(1, NumRefs), Ref(0, NumRefs), UnknownRef}

\* The scalar fields of a creation body.
Filled(dev) ==
    [dev EXCEPT !.Description = "d0", !.Labels = "[l0]", !.LastConnected = 1,
                !.LastReported = 1, !.Location = "loc0", !.Origin = 1]
\* The three references of a creation body: all given the same way, or one
\* of them unresolvable or ambiguous while the others are given by name.
OddHints == {ZeroRef, UnknownRef, Ref(1, NumRefs)}
NewHintTriples ==
    {<<h, h, h>> : h \in NewHints}
        \cup {<<h, Ref(0, 1), Ref(0, 1)>> : h \in OddHints}
        \cup {<<Ref(0, 1), h, Ref(0, 1)>> : h \in OddHints}
        \cup {<<Ref(0, 1), Ref(0, 1), h>> : h \in OddHints}
NewStates == {<<"ENABLED", "UNLOCKED">>, <<"", "UNLOCKED">>, <<"ENABLED", "">>}
SeqNewDevices ==
    {Filled(NewDevice(n, t[1], t[2], t[3], st[1], st[2])) :
        n \in Names, t \in NewHintTriples, st \in NewStates}

\* A patch that supplies every field, its references given as hint.
FullPatch(hint) ==
    [ZeroDevice EXCEPT !.Addressable = hint, !.Service = hint, !.Profile = hint,
                       !.AdminState = "LOCKED", !.Description = "updated",
                       !.Labels = "[l2]", !.LastConnected = 2, !.LastReported = 2,
                       !.Location = "loc2", !.OperatingState = "DISABLED",
                       !.Origin = 2]
PatchFields ==
    {"Addressable", "Service", "Profile", "AdminState", "Description", "Labels",
     "LastConnected", "LastReported", "Location", "OperatingState", "Origin"}
\* The patch that supplies the fields S of src, for the device (id, n).
PatchOf(S, src, id, n) ==
    [ZeroDevice EXCEPT
       !.Id = id, !.Name = n,
       !.Addressable = IF "Addressable" \in S THEN src.Addressable ELSE @,
       !.Service = IF "Service" \in S THEN src.Service ELSE @,
       !.Profile = IF "Profile" \in S THEN src.Profile ELSE @,
       !.AdminState = IF "AdminState" \in S THEN src.AdminState ELSE @,
       !.Description = IF "Description" \in S THEN src.Description ELSE @,
       !.Labels = IF "Labels" \in S THEN src.Labels ELSE @,
       !.LastConnected = IF "LastConnected" \in S THEN src.LastConnected ELSE @,
       !.LastReported = IF "LastReported" \in S THEN src.LastReported ELSE @,
       !.Location = IF "Location" \in S THEN src.Location ELSE @,
       !.OperatingState = IF "OperatingState" \in S THEN src.OperatingState ELSE @,
       !.Origin = IF "Origin" \in S THEN src.Origin ELSE @]
PatchShapes == {{}, PatchFields} \cup {{f} : f \in PatchFields}
\* Patches addressed by Id or by Name, and renames with or without a
\* Description.
SeqPatches ==
    {PatchOf(S, FullPatch(hint), id, "") :
        S \in PatchShapes, hint \in PatchHints, id \in DevIds}
    \cup {PatchOf(S, FullPatch(hint), 0, n) :
        S \in PatchShapes, hint \in PatchHints, n \in Names}
    \cup {PatchOf(S, FullPatch(UnknownRef), id, n) :
        S \in {{}, {"Description"}}, id \in DevIds, n \in Names}
\* Each state value is valid for one kind of state setter and not the other.
SeqSetterRequests(h) ==
    {SetterParams(h, id, n, state, time) :
        id \in DevIds, n \in Names,
        state \in {"DISABLED", "LOCKED"}, time \in {0, 7}}

\* The external notification is enabled, any call may fail.
InitSeq == InitCommon /\ postChanges /\ budget = -1 /\ quota = MaxSeqRequests

NextSeq ==
    \E p \in {"h1"} :
        \/ \E body \in SeqNewDevices : AddNewDeviceCheck(p, body)
        \/ AddNewDeviceAdd(p)
        \/ \E body \in SeqPatches : UpdateDeviceById(p, body)
        \/ UpdateDeviceByName(p)
        \/ UpdateDeviceMerge(p)
        \/ \E h \in SetterHandlers : \E params \in SeqSetterRequests(h) :
              SetterFetch(p, h, params)
        \/ Persist(p)
        \/ \E h \in DeleteHandlers : \E params \in DeleteRequests(h) :
              DeleteDeviceBegin(p, h, params)
        \/ DeleteDeviceFetch(p)
        \/ DeleteDeviceEnumerate(p)
        \/ DeleteDeviceReportStep(p)
        \/ DeleteDeviceRecord(p)
        \/ Notify(p)

SpecSeq == InitSeq /\ [][NextSeq]_vars

(***************************************************************************)
(* The retrying specification: a caller creates a device and deletes it,   *)
(* re-invoking the same delete after every attempt that was not answered   *)
(* 200.  At most MaxFaults calls fail; a handler that can take a step      *)
(* eventually takes one, and so does the caller.                           *)
(***************************************************************************)
InitRetry == InitCommon /\ budget = MaxFaults /\ quota = -1

\* The caller's first delete of the device it created, by id or by name.
FirstDelete(p) ==
    /\ pc[p] = "done" /\ op[p] = "restAddNewDevice"
    /\ \E h \in DeleteHandlers : DeleteDeviceBegin(p, h, Target(h, 1, rd[p].Name))

\* The caller re-invokes the delete that failed.
RetryDelete(p) ==
    /\ pc[p] = "done" /\ op[p] \in DeleteHandlers
    /\ resp[p].status /= StatusOK
    /\ DeleteDeviceBegin(p, op[p], rd[p])

NextRetry ==
    \E p \in {"h1"} :
        \/ /\ pc[p] = "idle"
           /\ \E body \in NewDevices : AddNewDeviceCheck(p, body)
        \/ AddNewDeviceAdd(p)
        \/ FirstDelete(p)
        \/ RetryDelete(p)
        \/ DeleteDeviceFetch(p)
        \/ DeleteDeviceEnumerate(p)
        \/ DeleteDeviceReportStep(p)
        \/ DeleteDeviceRecord(p)
        \/ Notify(p)

SpecRetry == InitRetry /\ [][NextRetry]_vars /\ WF_vars(NextRetry)

(***************************************************************************)
(* The notifying specification: one handler serves MaxSeqRequests requests *)
(* with the external notification enabled or disabled by configuration,    *)
(* and a notification sink that may lose what it is sent; the registry and *)
(* the associates either never fail or may fail at any call.               *)
(***************************************************************************)
InitNotify == InitCommon /\ budget \in {-1, 0} /\ quota = MaxSeqRequests

\* The results of SendNotification.
Deliveries == {"ok", "fail"}

NextNotify ==
    \E p \in {"h1"} :
        \/ \E body \in NewDevices : AddNewDeviceCheck(p, body)
        \/ AddNewDeviceAdd(p)
        \/ \E body \in Patches : UpdateDeviceById(p, body)
        \/ UpdateDeviceByName(p)
        \/ UpdateDeviceMerge(p)
        \/ \E h \in SetterHandlers : \E params \in SetterRequests(h) :
              SetterFetch(p, h, params)
        \/ Persist(p)
        \/ \E h \in DeleteHandlers : \E params \in DeleteRequests(h) :
              DeleteDeviceBegin(p, h, params)
        \/ DeleteDeviceFetch(p)
        \/ DeleteDeviceEnumerate(p)
        \/ DeleteDeviceReportStep(p)
        \/ DeleteDeviceRecord(p)
        \/ NotifyVia(p, Deliveries)

SpecNotify == InitNotify /\ [][NextNotify]_vars

(***************************************************************************)
(* The listing specification: one handler serves MaxRequests requests that *)
(* create devices, delete them and list them; any call may fail.           *)
(***************************************************************************)
InitList == InitCommon /\ postChanges /\ budget = -1 /\ quota = MaxRequests

NextList ==
    \E p \in {"h1"} :
        \/ \E body \in NewDevices : AddNewDeviceCheck(p, body)
        \/ AddNewDeviceAdd(p)
        \/ \E h \in DeleteHandlers : \E params \in DeleteRequests(h) :
              DeleteDeviceBegin(p, h, params)
        \/ DeleteDeviceFetch(p)
        \/ DeleteDeviceEnumerate(p)
        \/ DeleteDeviceReportStep(p)
        \/ DeleteDeviceRecord(p)
        \/ Notify(p)
        \/ restGetAllDevices(p)

SpecList == InitList /\ [][NextList]_vars

(***************************************************************************)
(* The merging specification: one handler serves MaxRequests requests that *)
(* create devices and merge-update them with patches that name a device by *)
(* Id, by Name or both, give the Addressable as empty, unknown or known    *)
(* and the Service and the Profile as empty or unknown; any call may fail. *)
(***************************************************************************)
InitMerge == InitCommon /\ postChanges /\ budget = -1 /\ quota = MaxRequests

MergeHints == {ZeroRef, UnknownRef, Ref(NumRefs, 0)}
MergePatches ==
    {[ZeroDevice EXCEPT !.Id = i, !.Name = n, !.Addressable = a, !.Service = s,
                        !.Profile = pr] :
        i \in 0..MaxDevices, n \in Names \cup {""},
        a \in MergeHints, s \in {ZeroRef, UnknownRef}, pr \in {ZeroRef, UnknownRef}}

NextMerge ==
    \E p \in {"h1"} :
        \/ \E body \in NewDevices : AddNewDeviceCheck(p, body)
        \/ AddNewDeviceAdd(p)
        \/ \E body \in MergePatches : UpdateDeviceById(p, body)
        \/ UpdateDeviceByName(p)
        \/ UpdateDeviceMerge(p)
        \/ Persist(p)
        \/ Notify(p)

SpecMerge == InitMerge /\ [][NextMerge]_vars

(***************************************************************************)
(* The reference registries change elsewhere: an entity is renamed (it     *)
(* keeps its Id) or registered anew (it keeps its Name and gets another    *)
(* Id).  At most MaxChanges entities change in one run.                    *)
(***************************************************************************)
RefKinds == DOMAIN InitialRefs
Changed(e) == e.Id > NumRefs \/ e.Name > NumRefs
NumChanged ==
    Cardinality(UNION {{<<f, e>> : e \in {x \in refs[f] : Changed(x)}} : f \in RefKinds})

EntityChanges(f, e, new) ==
    /\ e \in refs[f] /\ ~Changed(e)
    /\ NumChanged < MaxChanges
    /\ refs' = [refs EXCEPT ![f] = (@ \ {e}) \cup {new}]
    /\ UNCHANGED <<registry, postChanges, budget, quota, pc, op, rd, d, found, ri,
                   notes, resp>>

EntityRenamed(f, e) == EntityChanges(f, e, [e EXCEPT !.Name = e.Name + NumRefs + 1])
EntityReplaced(f, e) == EntityChanges(f, e, [e EXCEPT !.Id = e.Id + NumRefs + 1])

(***************************************************************************)
(* The referencing specification: one handler serves MaxSeqRequests        *)
(* requests (create, merge-update with and without references, setters,    *)
(* delete) while the reference registries change; no call fails.           *)
(***************************************************************************)
InitRefs == InitCommon /\ postChanges /\ budget = 0 /\ quota = MaxSeqRequests

\* Patches of device 1: a Description alone, and the Service or the
\* Addressable named by the Id or by the Name the device was created with.
RefsPatches ==
    {[ZeroDevice EXCEPT !.Id = 1, !.Description = "updated"],
     [ZeroDevice EXCEPT !.Id = 1, !.Service = Ref(1, 0)],
     [ZeroDevice EXCEPT !.Id = 1, !.Service = Ref(0, 1)],
     [ZeroDevice EXCEPT !.Id = 1, !.Addressable = Ref(1, 0)],
     [ZeroDevice EXCEPT !.Id = 0, !.Name = ReportOwner, !.Profile = Ref(0, 1)]}

NextRefs ==
    \/ \E f \in RefKinds : \E e \in refs[f] : EntityRenamed(f, e)
    \/ \E f \in RefKinds : \E e \in refs[f] : EntityReplaced(f, e)
    \/ \E p \in {"h1"} :
        \/ \E body \in NewDevices : AddNewDeviceCheck(p, body)
        \/ AddNewDeviceAdd(p)
        \/ \E body \in RefsPatches : UpdateDeviceById(p, body)
        \/ UpdateDeviceByName(p)
        \/ UpdateDeviceMerge(p)
        \/ \E h \in ConcurrentSetters : \E params \in SetterRequests(h) :
              SetterFetch(p, h, params)
        \/ Persist(p)
        \/ \E h \in DeleteHandlers : \E params \in DeleteRequests(h) :
              DeleteDeviceBegin(p, h, params)
        \/ DeleteDeviceFetch(p)
        \/ DeleteDeviceEnumerate(p)
        \/ DeleteDeviceReportStep(p)
        \/ DeleteDeviceRecord(p)
        \/ Notify(p)

SpecRefs == InitRefs /\ [][NextRefs]_vars

(***************************************************************************)
(* Properties.                                                             *)
(***************************************************************************)
Done(p, h) == pc[p] = "done" /\ op[p] = h
Succeeded(p) == pc[p] = "done" /\ resp[p].status = StatusOK /\ resp[p].body /= ""
DuplicateName(p) == resp[p] = Response(StatusConflict, "Duplicate name for device")

\* C1: in every reachable state no two stored devices have the same Name
\* (nor the same Id), whatever creations, merge-updates, renames, setters and
\* deletes were interleaved.
C1_NameUnique ==
    \A x \in devices : \A y \in devices : (x.Name = y.Name \/ x.Id = y.Id) => x = y

\* Two devices are stored and a merge-update has been persisted.
C1_Witness ==
    /\ Cardinality(devices) = 2
    /\ \E p \in Procs : Done(p, "restUpdateDevice") /\ Succeeded(p)

\* C2: when the only two requests served are two creations that both reached
\* the registry's add without a backend failure, at least one succeeded and
\* every success stored one device of its own; with C1's distinct Names, two
\* creations of one Name end as one success and one duplicate-name 409, and
\* one device of that Name is stored.
C2_OneCreateWins ==
    ( /\ quota = MaxRequests - 2
      /\ \A p \in Procs : Done(p, "restAddNewDevice") /\ (Succeeded(p) \/ DuplicateName(p)) )
    => /\ \E p \in Procs : Succeeded(p)
       /\ Cardinality(devices) = Cardinality({p \in Procs : Succeeded(p)})
       /\ \A x \in devices : \A y \in devices : x.Name = y.Name => x = y

\* Both creations are answered: one with the new id, one with the duplicate
\* name, and one device is stored.
C2_Witness ==
    /\ quota = MaxRequests - 2
    /\ \A p \in Procs : Done(p, "restAddNewDevice")
    /\ \E p \in Procs : Succeeded(p)
    /\ \E p \in Procs : DuplicateName(p)
    /\ Cardinality(devices) = 1

\* The vocabulary of the properties of the sequential specification.
Accepts(p, h) == Free(p) /\ quota' = quota - 1 /\ op'[p] = h
Resolvable(hint, table) == \E e \in table : e.Id = hint.Id \/ e.Name = hint.Name
Resolves(e, hint, table) == e \in table /\ (e.Id = hint.Id \/ e.Name = hint.Name)
IdFirst(hint, table) ==
    IF \E e \in table : e.Id = hint.Id THEN {e \in table : e.Id = hint.Id}
    ELSE {e \in table : e.Name = hint.Name}
NameFirst(hint, table) ==
    IF \E e \in table : e.Name = hint.Name THEN {e \in table : e.Name = hint.Name}
    ELSE {e \in table : e.Id = hint.Id}
RefFields == {"Addressable", "Service", "Profile"}
ScalarFields == DOMAIN ZeroDevice \ (RefFields \cup {"Id", "Name"})
TableOf(f) ==
    IF f = "Addressable" THEN Addressables
    ELSE IF f = "Service" THEN DeviceServices ELSE DeviceProfiles
ValidNew(body) ==
    /\ \A f \in RefFields : Resolvable(body[f], TableOf(f))
    /\ body.OperatingState /= "" /\ body.AdminState /= ""

\* C3: a create request with resolvable Addressable, Service and Profile and
\* non-empty states is not rejected by the checks; when its Name is unused the
\* add is not answered as a duplicate; and unless the registry's add fails,
\* the response is 200 with the id of a stored device that a lookup by that
\* id returns: the request's Name, states and scalars, each reference
\* replaced by a registry entity that the request's hint resolves to.
C3_Created(p) ==
    \E dev \in devices :
        /\ resp[p] = Response(StatusOK, ToString(dev.Id))
        /\ GetDeviceById(dev.Id) = {dev}
        /\ dev.Name = rd[p].Name
        /\ \A f \in ScalarFields : dev[f] = rd[p][f]
        /\ \A f \in RefFields : Resolves(dev[f], rd[p][f], TableOf(f))
C3_CreateSucceeds ==
    [][\A p \in Procs :
        /\ (Accepts(p, "restAddNewDevice") /\ ValidNew(rd'[p])) => pc'[p] = "add"
        /\ ( /\ pc[p] = "add" /\ pc'[p] = "done"
             /\ \A x \in devices : x.Name /= rd[p].Name )
           => resp'[p] = Response(StatusServiceUnavailable, "AddDevice failed")
        /\ (pc[p] = "notify" /\ op[p] = "restAddNewDevice" /\ pc'[p] = "done")
           => C3_Created(p)']_vars
C3_Witness ==
    \E p \in Procs :
        /\ Done(p, "restAddNewDevice") /\ C3_Created(p)
        /\ rd[p].Addressable = Ref(1, NumRefs) /\ rd[p].Service = Ref(0, 1)

\* C4: a create request one of whose Addressable, Service, Profile resolves
\* neither by id nor by name is answered 409 at once; the stored devices are
\* unchanged and the request has dispatched no notification.
C4_UnresolvedRejected ==
    [][\A p \in Procs :
        ( /\ Accepts(p, "restAddNewDevice")
          /\ \E f \in RefFields : ~Resolvable(rd'[p][f], TableOf(f)) )
        => /\ pc'[p] = "done"
           /\ resp'[p].status = StatusConflict
           /\ devices' = devices
           /\ notes'[p] = << >>]_vars
C4_Witness ==
    \E p \in Procs :
        /\ Done(p, "restAddNewDevice")
        /\ Resolvable(rd[p].Addressable, Addressables)
        /\ Resolvable(rd[p].Service, DeviceServices)
        /\ ~Resolvable(rd[p].Profile, DeviceProfiles)
        /\ resp[p].status = StatusConflict
        /\ notes[p] = << >>

\* The device a merge-update addresses: by the patch's Id, else by its Name.
Addressed(patch, stored) ==
    IF \E x \in stored : x.Id = patch.Id THEN {x \in stored : x.Id = patch.Id}
    ELSE {x \in stored : x.Name = patch.Name}

C6_Merged(old, new, patch) ==
    /\ new.Id = old.Id
    /\ new.Name = IF patch.Name /= "" THEN patch.Name ELSE old.Name
    /\ \A f \in ScalarFields :
          new[f] = IF patch[f] /= ZeroDevice[f] THEN patch[f] ELSE old[f]
    /\ \A f \in RefFields :
          IF patch[f] = ZeroRef THEN new[f] = old[f]
          ELSE Resolves(new[f], patch[f], TableOf(f))
C6_MergeFrame ==
    [][\A p \in Procs :
        (pc[p] = "persist" /\ op[p] = "restUpdateDevice" /\ pc'[p] = "notify")
        => \E old \in GetDeviceById(d[p].Id) : \E new \in devices' :
              /\ devices' \ {new} = devices \ {old}
              /\ C6_Merged(old, new, rd[p])]_vars
\* A patch of Id and Description was persisted: the Description is the
\* patch's, the Origin and the Name are as created.
C6_Witness ==
    \E p \in Procs : \E dev \in devices :
        /\ Done(p, "restUpdateDevice") /\ Succeeded(p)
        /\ rd[p] = [ZeroDevice EXCEPT !.Id = dev.Id, !.Description = "updated"]
        /\ dev.Description = "updated" /\ dev.Origin = 1 /\ dev.Name \in Names

\* C7 as claimed: a merge-update whose patch carries the Name of another
\* stored device ends without a write and is answered 409 (or fails in the
\* registry lookup of the uniqueness test); one whose patch carries the
\* device's own Name passes that test.
C7_RenameConflict ==
    [][\A p \in Procs :
        (pc[p] = "merge" /\ pc'[p] /= "merge" /\ rd[p].Name /= "")
        => IF \E x \in devices : x.Name = rd[p].Name /\ x.Id /= d[p].Id
           THEN /\ pc'[p] = "done"
                /\ devices' = devices
                /\ \/ resp'[p].status = StatusConflict
                   \/ resp'[p].body = "GetDeviceByName failed"
           ELSE \/ pc'[p] = "persist"
                \/ pc'[p] = "done" /\ resp'[p].body = "GetDeviceByName failed"]_vars

\* C8: when a delete answers 200, no stored device has the Id of the device
\* it fetched and none of the reports it enumerated is stored.
C8_DeletedOnSuccess ==
    [][\A p \in Procs :
        ( /\ pc[p] = "notify" /\ op[p] \in DeleteHandlers
          /\ pc'[p] = "done" /\ resp'[p].status = StatusOK )
        => /\ \A x \in devices' : x.Id /= d[p].Id
           /\ \A i \in 1..Len(found[p]) : found[p][i] \notin reports']_vars
\* A delete by name of the device that owns the reports was answered 200.
C8_Witness ==
    \E p \in Procs :
        /\ Done(p, "restDeleteDeviceByName") /\ Succeeded(p)
        /\ rd[p].Name = ReportOwner
        /\ reports = {}
        /\ \A x \in devices : x.Name /= ReportOwner

\* C9: when the deletion of the K-th enumerated report fails, the delete
\* ends in that step with an error response; the K-1 reports before it are
\* gone, the K-th and those after it and the device are stored, and the
\* request has dispatched no notification of the device's deletion.
C9_CascadeAborts ==
    [][\A p \in Procs :
        (pc[p] = "reports" /\ reports' = reports)
        => /\ pc'[p] = "done"
           /\ resp'[p].status = StatusServiceUnavailable /\ resp'[p].body /= ""
           /\ \A i \in 1..ri[p] : found[p][i] \notin reports'
           /\ \A i \in (ri[p] + 1)..Len(found[p]) : found[p][i] \in reports'
           /\ d[p] \in devices'
           /\ \A i \in 1..Len(notes'[p]) :
                 notes'[p][i].kind \in {"external", "associate"}
                    => notes'[p][i].action /= "DELETE"]_vars
\* The second report's deletion failed: the first is gone, its notification
\* dispatched, the device still stored.
C9_Witness ==
    \E p \in Procs :
        /\ pc[p] = "done" /\ op[p] \in DeleteHandlers
        /\ resp[p] = Response(StatusServiceUnavailable, "DeleteDeviceReport failed")
        /\ Cardinality(reports) = MaxReports - 1
        /\ Len(notes[p]) = 1 /\ notes[p][1].kind = "report"
        /\ \E x \in devices : x.Name = ReportOwner

\* C10 as claimed: once a device is stored, the caller's re-invoked deletes
\* lead to an attempt answered 200 with the device and its reports removed.
C10_EventuallySuccess ==
    \A n \in Names :
        (\E x \in devices : x.Name = n)
        ~> \E p \in Procs :
              /\ pc[p] = "done" /\ op[p] \in DeleteHandlers
              /\ resp[p].status = StatusOK
              /\ \A x \in devices : x.Name /= n
              /\ \A r \in reports : r.Device /= n

\* C10 (amended): once a device is stored, the caller's re-invoked deletes
\* lead to a state where the device and every report of its Name are
\* removed; and every attempt enumerates exactly the reports of that Name
\* that are still stored.
C10_RetryConverges ==
    /\ \A n \in Names :
          (\E x \in devices : x.Name = n)
          ~> ( /\ \A x \in devices : x.Name /= n
               /\ \A r \in reports : r.Device /= n )
    /\ [][\A p \in Procs :
            (pc[p] = "enumerate" /\ pc'[p] \in {"reports", "deleteDevice"})
            => {found'[p][i] : i \in 1..Len(found'[p])}
                  = {r \in reports : r.Device = d[p].Name}]_vars
\* Every failure of the budget has happened, and a re-invoked delete was
\* answered 200 with the device and the reports gone.
C10_Witness ==
    \E p \in Procs :
        /\ pc[p] = "done" /\ op[p] \in DeleteHandlers
        /\ resp[p].status = StatusOK
        /\ budget = 0 /\ nextId = 2 /\ devices = {} /\ reports = {}

\* C11: in every reachable state every stored device's OperatingState is
\* ENABLED or DISABLED and its AdminState is LOCKED or UNLOCKED, never empty.
C11_StatesEnumerated ==
    \A x \in devices :
        /\ x.OperatingState \in {"ENABLED", "DISABLED"}
        /\ x.AdminState \in {"LOCKED", "UNLOCKED"}
\* A state setter replaced a state of the stored device.
C11_Witness ==
    \E p \in Procs :
        /\ Done(p, "restSetDeviceOpStateByName") /\ Succeeded(p)
        /\ \E x \in devices : x.OperatingState = "DISABLED"

\* C12 as claimed: an operating-state setter (by id or by name) given a
\* string outside {ENABLED, DISABLED} ends at once with an invalid-input
\* error, a kind of its own and not the answer of an unavailable store,
\* leaves the stored devices unchanged and dispatches no notification.
C12_InvalidOpState ==
    [][\A p \in Procs : \A h \in OpStateHandlers :
        (Accepts(p, h) /\ ~GetOperatingState(rd'[p].OperatingState))
        => /\ pc'[p] = "done"
           /\ resp'[p].status \notin {StatusOK, StatusServiceUnavailable}
           /\ devices' = devices
           /\ notes'[p] = << >>]_vars

\* C13 as claimed: when the associate notification of a create, merge-update,
\* operating-state setter, admin-state setter or delete fails after the
\* registry write, the operation answers with an error and the write stays
\* in the registry.
C13_AssociateFailureReturned ==
    [][\A p \in Procs :
        ( /\ pc[p] = "notify" /\ pc'[p] = "done"
          /\ op[p] \in {"restAddNewDevice", "restUpdateDevice"} \cup OpStateHandlers
                          \cup AdminStateHandlers \cup DeleteHandlers
          /\ \A i \in 1..Len(notes'[p]) : notes'[p][i].kind /= "associate" )
        => /\ resp'[p].status /= StatusOK
           /\ devices' = devices]_vars

\* The step of handler p is a registry add, update or delete that failed:
\* the handler ends where a successful write goes on to the notification,
\* or ends without the record it meant to write being stored.
C14_WriteFailed(p) ==
    /\ pc'[p] = "done"
    /\ \/ pc[p] \in {"add", "reports", "deleteDevice"}
       \/ pc[p] = "persist" /\ (op[p] \in NotifyingHandlers \/ d[p] \notin devices')

\* C14 as claimed: whenever a registry add, update or delete fails inside a
\* create, merge-update, single-field setter or delete, the caller receives
\* an error with a message (never a success, never an empty response), the
\* call is not made again, and the failed call is followed by no
\* notification of the device.
C14_WriteFailureSurfaced ==
    [][\A p \in Procs :
        C14_WriteFailed(p)
        => /\ resp'[p].status /= StatusOK
           /\ resp'[p].body /= ""
           /\ registry' = registry
           /\ notes'[p] = notes[p]
           /\ \A i \in 1..Len(notes'[p]) : notes'[p][i].kind = "report"]_vars

\* Handler p answers its setter request h with success in this step.
C15_SetterSucceeds(p, h) ==
    /\ op[p] = h /\ pc[p] /= "done" /\ pc'[p] = "done"
    /\ resp'[p].status = StatusOK /\ resp'[p].body /= ""
\* The device the request of p addresses is stored with the requested value.
C15_Persisted(p, h) ==
    \E x \in devices' :
        /\ IF h \in ByNameHandlers THEN x.Name = rd[p].Name ELSE x.Id = rd[p].Id
        /\ SetField(h, x, rd[p]) = x

\* C15 as claimed: every single-field setter that succeeds has stored the
\* value and dispatched a notification with the update action; no
\* successful setter call omits the notification.
C15_EverySetterNotifies ==
    [][\A p \in Procs : \A h \in SetterHandlers :
        C15_SetterSucceeds(p, h)
        => /\ C15_Persisted(p, h)
           /\ \E i \in 1..Len(notes'[p]) : notes'[p][i].action = "PUT"]_vars

\* The setters that notify: the state setters and the last-connected and
\* last-reported setters called with notify = true.
C15_NotifyingSetters ==
    OpStateHandlers \cup AdminStateHandlers
        \cup {"restSetLastConnectedByIdNotify", "restSetDeviceLastConnectedByNameNotify",
              "restSetDeviceLastReportedByIdNotify", "restSetDeviceLastReportedByNameNotify"}

\* C15 (amended): every single-field setter that succeeds has fetched the
\* device and stored the value before it answers.  An operating-state or
\* admin-state setter, and a last-connected or last-reported setter called
\* with notify = true, answers from its notification step, after the write,
\* and every notification it dispatched has the update action (the external
\* one is among them when the flag is set); a last-connected or
\* last-reported setter called without notify answers from its write and
\* dispatches no notification.
C15_SetterShape ==
    [][\A p \in Procs : \A h \in SetterHandlers :
        C15_SetterSucceeds(p, h)
        => /\ C15_Persisted(p, h)
           /\ IF h \in C15_NotifyingSetters
              THEN /\ pc[p] = "notify"
                   /\ \A i \in 1..Len(notes'[p]) : notes'[p][i].action = "PUT"
                   /\ postChanges => Len(notes'[p]) >= 1
              ELSE /\ pc[p] = "persist"
                   /\ notes'[p] = << >>]_vars
\* A last-connected setter called without notify stored its value and
\* answered 200 with no notification dispatched.
C15_Witness ==
    \E p \in Procs :
        /\ Done(p, "restSetDeviceLastConnectedById") /\ Succeeded(p)
        /\ notes[p] = << >>
        /\ \E x \in devices : x.Id = rd[p].Id /\ x.LastConnected = 7

\* The notifications of the device (external or associate) among events.
C16_DeviceEvents(events) ==
    {i \in 1..Len(events) : events[i].kind \in {"external", "associate"}}

\* C16: a handler dispatches a notification of a device only in its
\* notification step, with the action of its operation, when the registry
\* write of that operation has succeeded (the record it added or updated is
\* stored, the device it deleted is not); a handler that ends before or at
\* its registry write has dispatched none.
C16_NotifyAfterMutation ==
    [][\A p \in Procs :
        /\ C16_DeviceEvents(notes'[p]) /= {} /\ notes'[p] /= notes[p]
           => /\ pc[p] = "notify"
              /\ \A i \in C16_DeviceEvents(notes'[p]) :
                    notes'[p][i].action = ActionOf(op[p])
              /\ IF op[p] \in DeleteHandlers
                 THEN \A x \in devices : x.Id /= d[p].Id
                 ELSE d[p] \in devices
        /\ pc'[p] = "done" /\ pc[p] /= "notify"
           => C16_DeviceEvents(notes'[p]) = {}]_vars
\* A merge-update was answered after its notification step with both
\* notifications dispatched.
C16_Witness ==
    \E p \in Procs :
        /\ Done(p, "restUpdateDevice") /\ Succeeded(p)
        /\ Cardinality(C16_DeviceEvents(notes[p])) = 2
        /\ \A i \in 1..Len(notes[p]) : notes[p][i].action = "PUT"

\* C17: a merge-update merges its patch into the copy of the device it
\* fetched, whatever other handlers have stored since, and its write
\* replaces the stored record of that Id by this merged copy as a whole,
\* every other record untouched: of two interleaved merge-updates that both
\* succeed, the record of the one that persisted last is the stored one.
C17_LastWriteWins ==
    [][\A p \in Procs :
        op[p] = "restUpdateDevice"
        => /\ (pc[p] = "merge" /\ pc'[p] = "persist")
              => C6_Merged(d[p], d'[p], rd[p])
           /\ (pc[p] = "persist" /\ pc'[p] = "notify")
              => /\ {x \in devices' : x.Id = d[p].Id} = {d[p]}
                 /\ {x \in devices' : x.Id /= d[p].Id}
                       = {x \in devices : x.Id /= d[p].Id}]_vars
\* Two merge-updates of device 1 were both answered 200: the rename to the
\* second Name was persisted first and the Description patch, merged from
\* the record read before the rename, put the first Name back.
C17_Witness ==
    \E p \in Procs, q \in Procs :
        /\ Done(p, "restUpdateDevice") /\ Succeeded(p)
        /\ Done(q, "restUpdateDevice") /\ Succeeded(q)
        /\ rd[p] = [ZeroDevice EXCEPT !.Id = 1, !.Name = "n2"]
        /\ rd[q] = [ZeroDevice EXCEPT !.Id = 1, !.Description = "updated"]
        /\ \E x \in devices : x.Id = 1 /\ x.Name = "n1" /\ x.Description = "updated"

\* Handler p has an external (associate) notification on record.
C18_External(events) == \E i \in 1..Len(events) : events[i].kind = "external"
C18_Associate(events) == \E i \in 1..Len(events) : events[i].kind = "associate"

\* C18: an external notification is on record only when the
\* post-device-changes flag is enabled, never when it is disabled; and in
\* every notification step the response depends on the associate
\* notification alone, whether or not the external one was delivered: 200
\* when the associate notification went through or the handler does not
\* test it, an error otherwise; and where neither the registry nor the
\* associates fail, the associate notification goes through and the handler
\* answers 200 whatever became of the external one.
C18_ExternalFireAndForget ==
    [][\A p \in Procs :
        (pc[p] = "notify" /\ pc'[p] = "done")
        => /\ C18_External(notes'[p]) => postChanges
           /\ resp'[p].status = StatusOK
                 <=> (C18_Associate(notes'[p]) \/ op[p] \notin CheckingHandlers)
           /\ resp'[p].status /= StatusOK
                 => resp'[p] = Response(StatusServiceUnavailable, "notify failed")
           /\ budget = 0
                 => C18_Associate(notes'[p]) /\ resp'[p].status = StatusOK]_vars
\* The flag is enabled and the external notification of a delete was lost:
\* the associate notification went through and the delete was answered 200.
C18_Witness ==
    \E p \in Procs :
        /\ postChanges /\ budget = 0
        /\ pc[p] = "done" /\ op[p] \in DeleteHandlers /\ Succeeded(p)
        /\ ~C18_External(notes[p]) /\ C18_Associate(notes[p])

\* C19: a listing answers 200 only with every stored device encoded, and
\* only when they are no more than the configured maximum; when they are
\* more it answers with the too-large failure; it never answers 200 with a
\* strict subset of the stored devices.  (The listing whose registry read
\* fails answers 503.)
C19_ListingComplete ==
    [][\A p \in Procs :
        Accepts(p, "restGetAllDevices")
        => /\ pc'[p] = "done"
           /\ devices' = devices
           /\ \/ /\ resp'[p] = Response(StatusOK, Encode(devices))
                 /\ Cardinality(devices) <= ReadMaxLimit
              \/ /\ resp'[p] = Response(StatusRequestEntityTooLarge, "Max limit exceeded")
                 /\ Cardinality(devices) > ReadMaxLimit
              \/ resp'[p] = Response(StatusServiceUnavailable, "GetAllDevices failed")
           /\ \A res \in SUBSET devices :
                 res /= devices => resp'[p] /= Response(StatusOK, Encode(res))]_vars
\* More devices are stored than the maximum and the listing was answered
\* with the too-large failure.
C19_Witness ==
    \E p \in Procs :
        /\ Done(p, "restGetAllDevices")
        /\ resp[p].status = StatusRequestEntityTooLarge
        /\ Cardinality(devices) = ReadMaxLimit + 1

\* The events that the step of handler p adds to its notifications.
C20_NewEvents(p) ==
    IF Len(notes'[p]) > Len(notes[p])
    THEN {notes'[p][i] : i \in (Len(notes[p]) + 1)..Len(notes'[p])}
    ELSE {}

\* C20: within one delete, (1) each pass of the cascade removes exactly the
\* next report of the enumeration, those before it being gone already;
\* (2) a report's deleted notification is dispatched only in the pass that
\* removed this report; (3) the device record is removed only when every
\* enumerated report has been removed; (4) the device's deleted
\* notifications are dispatched only in the notification step, when the
\* device record is gone.
C20_DeleteOrder ==
    [][\A p \in Procs :
        op[p] \in DeleteHandlers
        => /\ (pc[p] = "reports" /\ ri'[p] = ri[p] + 1)
              => /\ found[p][ri[p] + 1] \in reports
                 /\ reports' = reports \ {found[p][ri[p] + 1]}
                 /\ \A i \in 1..ri[p] : found[p][i] \notin reports
           /\ \A e \in C20_NewEvents(p) :
                 e.kind = "report"
                 => /\ pc[p] = "reports"
                    /\ e.id = found[p][ri[p] + 1].Id /\ e.action = "DELETE"
                    /\ found[p][ri[p] + 1] \in reports \ reports'
           /\ (pc[p] = "deleteDevice" /\ pc'[p] = "notify")
              => /\ ri[p] = Len(found[p])
                 /\ \A i \in 1..Len(found[p]) : found[p][i] \notin reports
                 /\ devices' = {x \in devices : x.Id /= d[p].Id}
           /\ \A e \in C20_NewEvents(p) :
                 e.kind \in {"external", "associate"}
                 => /\ pc[p] = "notify" /\ e.action = "DELETE"
                    /\ \A x \in devices : x.Id /= d[p].Id]_vars
\* A delete has removed every report of the device, one notification each,
\* then the device record, and is about to notify.
C20_Witness ==
    \E p \in Procs :
        /\ pc[p] = "notify" /\ op[p] \in DeleteHandlers
        /\ Len(found[p]) = MaxReports /\ ri[p] = MaxReports
        /\ Len(notes[p]) = MaxReports
        /\ \A i \in 1..MaxReports : notes[p][i].id = found[p][i].Id
        /\ reports = {}
        /\ \A x \in devices : x.Id /= d[p].Id

C22_UpdateLookup ==
    [][\A p \in Procs :
        /\ (Free(p) /\ op'[p] = "restUpdateDevice" /\ pc'[p] \notin {"idle", "done"})
           => /\ pc'[p] \in {"merge", "byname"}
              /\ pc'[p] = "merge" => d'[p] \in GetDeviceById(rd'[p].Id)
              /\ GetDeviceById(rd'[p].Id) = {} => pc'[p] = "byname"
        /\ (op[p] = "restUpdateDevice" /\ pc[p] = "byname" /\ pc'[p] /= "byname")
           => /\ pc'[p] = "merge" => d'[p] \in GetDeviceByName(rd[p].Name)
              /\ pc'[p] /= "merge"
                    => pc'[p] = "done" /\ resp'[p].status = StatusNotFound
              /\ GetDeviceByName(rd[p].Name) = {} => pc'[p] = "done"
        /\ (op[p] = "restUpdateDevice" /\ pc[p] = "merge" /\ pc'[p] /= "merge"
              /\ \E x \in devices : x.Name = rd[p].Name /\ x.Id /= d[p].Id)
           => /\ pc'[p] = "done" /\ resp'[p].status /= StatusOK
              /\ devices' = devices]_vars
\* Devices 1 and 2 are stored under the two Names; a patch with the Id of
\* device 1 and the Name of device 2 was refused as a duplicate name and
\* both devices are as they were.
C22_Witness ==
    \E p \in Procs :
        /\ Done(p, "restUpdateDevice")
        /\ resp[p].body = "Duplicate name for Device"
        /\ rd[p].Id = 1 /\ rd[p].Name = "n2"
        /\ \E a \in devices, b \in devices :
              a.Id = 1 /\ a.Name = "n1" /\ b.Id = 2 /\ b.Name = "n2"

\* The answer of the first check that the creation body fails, in the order
\* Addressable, Service, Profile, states; "" when it passes them all.
C23_FirstDefect(body) ==
    IF ~Resolvable(body.Addressable, Addressables)
    THEN "A device must be associated to an Addressable"
    ELSE IF ~Resolvable(body.Service, DeviceServices)
    THEN "A device must be associated with a device service"
    ELSE IF ~Resolvable(body.Profile, DeviceProfiles)
    THEN "A device must be associated with a device profile"
    ELSE IF body.OperatingState = "" \/ body.AdminState = ""
    THEN "Device can't have null operating state or admin state"
    ELSE ""

\* C23: a create is answered with the Conflict of the first check its body
\* fails, in the order Addressable, Service, Profile, states, whatever its
\* later defects; only a body that passes the four checks reaches the
\* registry add, where an already used Name is answered as a duplicate name.
C23_FirstFailingStep ==
    [][\A p \in Procs :
        /\ Accepts(p, "restAddNewDevice")
           => IF C23_FirstDefect(rd'[p]) /= ""
              THEN /\ resp'[p] = Response(StatusConflict, C23_FirstDefect(rd'[p]))
                   /\ pc'[p] = "done" /\ registry' = registry
              ELSE pc'[p] = "add"
        /\ (op[p] = "restAddNewDevice" /\ pc[p] = "add" /\ pc'[p] = "done")
           => /\ C23_FirstDefect(rd[p]) = ""
              /\ registry' = registry
              /\ (\E x \in devices : x.Name = rd[p].Name)
                    => resp'[p].status \in {StatusConflict, StatusServiceUnavailable}
              /\ resp'[p].status = StatusConflict => DuplicateName(p)']_vars
\* A body with resolvable references, an empty state and the Name of a
\* stored device was answered with the null-state Conflict.
C23_Witness ==
    \E p \in Procs :
        /\ Done(p, "restAddNewDevice")
        /\ resp[p] = Response(StatusConflict,
                              "Device can't have null operating state or admin state")
        /\ \A f \in RefFields : Resolvable(rd[p][f], TableOf(f))
        /\ \E x \in devices : x.Name = rd[p].Name

\* The error of the first reference of the patch that does not resolve, in
\* the order Addressable, Service, Profile; "" when those given all resolve.
C24_FirstUnresolved(patch) ==
    IF patch.Addressable /= ZeroRef /\ ~Resolvable(patch.Addressable, Addressables)
    THEN "Addressable not found for updated device"
    ELSE IF patch.Service /= ZeroRef /\ ~Resolvable(patch.Service, DeviceServices)
    THEN "Device service not found for updated device"
    ELSE IF patch.Profile /= ZeroRef /\ ~Resolvable(patch.Profile, DeviceProfiles)
    THEN "Device profile not found for updated device"
    ELSE ""

\* C24: the merge of a merge-update ends with the error of the first rule
\* that fails, in the order Addressable, Service, Profile, Name uniqueness:
\* an unresolvable reference is reported whatever the Name of the patch; the
\* Name is reported as a duplicate only when the references given resolve
\* and another device is stored under it; a Name under which no device, or
\* the device itself, is stored is no error (only a failed lookup is).
C24_FirstFailingRule ==
    [][\A p \in Procs :
        (op[p] = "restUpdateDevice" /\ pc[p] = "merge" /\ pc'[p] /= "merge")
        => IF C24_FirstUnresolved(rd[p]) /= ""
           THEN /\ pc'[p] = "done"
                /\ resp'[p].body = C24_FirstUnresolved(rd[p])
                /\ resp'[p].status /= StatusOK
           ELSE IF \E x \in devices : x.Name = rd[p].Name /\ x.Id /= d[p].Id
           THEN /\ pc'[p] = "done"
                /\ resp'[p].body \in {"Duplicate name for Device", "GetDeviceByName failed"}
           ELSE \/ pc'[p] = "persist"
                \/ /\ rd[p].Name /= ""
                   /\ pc'[p] = "done" /\ resp'[p].body = "GetDeviceByName failed"]_vars
\* Two devices are stored; a patch with the Id of the first, the Name of the
\* second and an unknown Addressable was answered with the
\* addressable-not-found error.
C24_Witness ==
    \E p \in Procs :
        /\ Done(p, "restUpdateDevice")
        /\ resp[p].body = "Addressable not found for updated device"
        /\ rd[p].Addressable = UnknownRef
        /\ \E a \in devices, b \in devices :
              a.Id = rd[p].Id /\ b.Id /= a.Id /\ b.Name = rd[p].Name


C25_Associates(p) == {e \in C20_NewEvents(p) : e.kind = "associate"}

\* C25: in every notification step the associates are notified at most
\* once, as an event of a device (the DEVICE entity type) that carries the
\* id of the handler's device and a list of exactly one service, the record
\* the service registry now holds under the id of the device's embedded
\* service; when the registry holds no record under that id the associates
\* are not notified, whatever it holds under the embedded service's name,
\* and the step fails: a handler that tests it answers 503.
C25_AssociateOfEmbeddedService ==
    [][\A p \in Procs :
        (pc[p] = "notify" /\ pc'[p] = "done")
        => LET ds == {s \in DeviceServices : s.Id = d[p].Service.Id}
           IN  /\ Cardinality(C25_Associates(p)) <= 1
               /\ \A e \in C25_Associates(p) :
                     /\ Len(e.services) = 1 /\ e.services[1] \in ds
                     /\ e.id = d[p].Id
                     /\ e.action = ActionOf(op[p])
               /\ ds = {}
                  => /\ C25_Associates(p) = {}
                     /\ op[p] \in CheckingHandlers
                        => resp'[p] = Response(StatusServiceUnavailable,
                                               "notify failed")
               /\ (ds /= {} /\ budget = 0) => C25_Associates(p) /= {}]_vars
\* The associates were notified of a device with the one service record the
\* registry holds now, which was renamed since the device stored its copy.
C25_Witness ==
    \E p \in Procs :
        /\ pc[p] = "done"
        /\ \E i \in 1..Len(notes[p]) :
              /\ notes[p][i].kind = "associate"
              /\ Len(notes[p][i].services) = 1
              /\ notes[p][i].services[1] \in DeviceServices
              /\ \E x \in devices :
                    /\ x.Id = notes[p][i].id
                    /\ x.Service.Id = notes[p][i].services[1].Id
                    /\ x.Service /= notes[p][i].services[1]


\* C26: a stored device's Addressable, Service and Profile are the copies
\* made at its last write.  (1) A change of a referenced entity in its
\* registry changes no stored device.  (2) A merge leaves each reference its
\* patch omits as the fetched device has it and sets each reference its
\* patch names to the record the registry then holds under the patch's id,
\* else name.  (3) A write to a stored device is the persist step of a
\* handler and stores that handler's device; a reference of the device
\* changes in it only when the handler is a merge-update whose patch names
\* that reference, so a setter stores every reference as it was.
C26_SnapshotKept ==
    [][/\ refs' /= refs => devices' = devices
       /\ \A p \in Procs :
             (pc[p] = "merge" /\ pc'[p] = "persist")
             => \A f \in RefFields :
                   IF rd[p][f] = ZeroRef
                   THEN d'[p][f] = d[p][f]
                   ELSE /\ d'[p][f] \in refs[f]
                        /\ d'[p][f] \in IdFirst(rd[p][f], refs[f])
       /\ \A x \in devices : \A y \in devices' :
             (x.Id = y.Id /\ x /= y)
             => \E p \in Procs :
                   /\ pc[p] = "persist" /\ y = d[p]
                   /\ \A f \in RefFields :
                         y[f] /= x[f]
                         => op[p] = "restUpdateDevice" /\ rd[p][f] /= ZeroRef]_vars
\* A merge-update whose patch names the Addressable and omits the Service
\* succeeded after the Addressable was renamed in its registry: the device
\* now stores the renamed Addressable record and the Service it had.
C26_Witness ==
    \E p \in Procs : \E x \in devices :
        /\ Done(p, "restUpdateDevice") /\ Succeeded(p)
        /\ rd[p].Id = x.Id
        /\ rd[p].Addressable /= ZeroRef /\ rd[p].Service = ZeroRef
        /\ x.Addressable \in Addressables /\ Changed(x.Addressable)
        /\ x.Service \in InitialRefs.Service


C27_TimeHandlers == LastConnectedHandlers \cup LastReportedHandlers
C27_TimeField(h) == IF h \in LastConnectedHandlers THEN "LastConnected" ELSE "LastReported"

\* C27: the write of a last-connected or last-reported setter replaces the
\* stored device by the same device with that timestamp set to the integer
\* of the request, zero included, and every other field as stored; a setter
\* whose write fails changes no device; and a merge whose patch carries 0
\* for a timestamp leaves that timestamp as the fetched device has it.
C27_TimestampSetExactly ==
    [][\A p \in Procs :
        /\ (pc[p] = "persist" /\ op[p] \in C27_TimeHandlers)
           => IF pc'[p] = "notify" \/ resp'[p].status = StatusOK
              THEN \E x \in devices :
                      /\ x.Id = d[p].Id
                      /\ devices' = (devices \ {x})
                            \cup {[x EXCEPT ![C27_TimeField(op[p])] =
                                               rd[p][C27_TimeField(op[p])]]}
              ELSE devices' = devices
        /\ (op[p] = "restUpdateDevice" /\ pc[p] = "merge" /\ pc'[p] = "persist")
           => \A f \in {"LastConnected", "LastReported"} :
                 d'[p][f] = IF rd[p][f] = 0 THEN d[p][f] ELSE rd[p][f]]_vars
\* A last-connected setter given 0 succeeded: the device, created with
\* last-connected and last-reported times of 1, now stores a last-connected
\* time of 0 and its other fields as created.
C27_Witness ==
    \E p \in Procs : \E x \in devices :
        /\ pc[p] = "done" /\ op[p] \in LastConnectedHandlers
        /\ resp[p].status = StatusOK
        /\ rd[p].LastConnected = 0
        /\ x.LastConnected = 0 /\ x.LastReported = 1
        /\ x.Description = "d0" /\ x.Origin = 1

====
